---- MODULE Spec2Model ----
(***************************************************************************)
(* wttr-weather-mcp: the line-delimited JSON-RPC dispatcher (main.go) and  *)
(* the wttr.in gateway it calls (weather.go).                              *)
(*                                                                         *)
(* Representation.                                                         *)
(*  - A Go string that only travels through the program (response text,   *)
(*    error text) is a sequence of chunks; a chunk is a run of valid UTF-8 *)
(*    text or the single invalid byte BadByte.  Concatenation is \o.       *)
(*  - A JSON value on the wire is a token: Absent (key not present),       *)
(*    Null (the literal null), NonString (a value of another JSON type),   *)
(*    or the string itself.                                                *)
(*  - An optional Go pointer / interface is a set with 0 or 1 elements.    *)
(*  - A request identifier is the JSON text of the Go value it holds.      *)
(***************************************************************************)
EXTENDS Integers, Sequences, FiniteSets, TLC

\* ------------------------------------------------------------------------
\* Bounds of the model
\* ------------------------------------------------------------------------
MaxLines == 2
MaxHistory == 3

\* ------------------------------------------------------------------------
\* State
\* ------------------------------------------------------------------------
VARIABLES
    pc,       \* "scan": at scanner.Scan(); "call": blocked in the
              \* WeatherService call; "done": the loop has ended
    nread,    \* number of input lines consumed so far
    cur,      \* the line consumed last
    pending,  \* WeatherService calls that have not returned: [line, call]
    calls,    \* every WeatherService call made: [line, call]
    got,      \* what the WeatherService returned for the current line
    sent,     \* every response handed to sendResponse: [line, resp]
    stdout,   \* the lines printed
    hist      \* observer: with hist.on, every request resolved so far with
              \* what came of it, [line, got, replies, calls]

vars == <<pc, nread, cur, pending, calls, got, sent, stdout, hist>>

\* ------------------------------------------------------------------------
\* Program constants (main.go:10-17, error codes in run/handleRequest/...)
\* ------------------------------------------------------------------------
serverName == "wttr-weather"
serverVersion == "1.0.0"
toolGetCurrent == "get_current_weather"
toolGetForecast == "get_forecast"
toolGetDetailed == "get_weather_detailed"
CodeParseError == -32700
CodeMethodNotFound == -32601
CodeInvalidParams == -32602
DefaultDays == 3
MinDays == 1
MaxDays == 3
StatusOK == 200

\* ------------------------------------------------------------------------
\* Wire tokens
\* ------------------------------------------------------------------------
Absent == "<absent>"
Null == "null"
NonString == "<non-string>"
Nil == "<nil>"
BadByte == "<E9>"
ReplacementChar == "<FFFD>"
BigIdWire == "9007199254740993"
BigIdFloat == "9007199254740992"

\* ------------------------------------------------------------------------
\* JSONRPCRequest and its decoding (main.go:19-24, json.Unmarshal at :66)
\* ------------------------------------------------------------------------
\* ID is interface{}: an absent key and a JSON null both leave it nil, a
\* JSON number is stored as float64 (integers above 2^53 are rounded).
DecodeID(tok) ==
    IF tok \in {Absent, Null} THEN Nil
    ELSE IF tok = BigIdWire THEN BigIdFloat
    ELSE tok

\* A string field: absent and null leave the zero value "".
DecodeString(tok) == IF tok \in {Absent, Null} THEN "" ELSE tok

\* json.Unmarshal(line, &req): err is TRUE for a syntax error, for a
\* top-level value that is neither an object nor null, and for a member of
\* the wrong JSON type (jsonrpc and method must be strings).
UnmarshalRequest(line) ==
    IF line.kind = "syntax" \/ line.kind = "array"
    THEN [err |-> TRUE, id |-> Nil, method |-> "", params |-> [kind |-> "absent"]]
    ELSE IF line.kind = "null"
    THEN [err |-> FALSE, id |-> Nil, method |-> "", params |-> [kind |-> "absent"]]
    ELSE [err |-> line.method = NonString,
          id |-> DecodeID(line.id),
          method |-> DecodeString(line.method),
          params |-> line.params]

\* ------------------------------------------------------------------------
\* Response constructors (main.go:26-37, 303-338)
\* ------------------------------------------------------------------------
RPCError(code, message, data) ==
    [code |-> code, message |-> message, data |-> data]

TextContent(text) == <<[type |-> "text", text |-> text]>>

successResponse_placeholder(id, text) ==
    [jsonrpc |-> "2.0", id |-> id,
     result |-> {[content |-> TextContent(IF text = <<>> THEN <<"(no data)">>
                                          ELSE text)]},
     error |-> {}]

successResponse(id, text) ==
    [jsonrpc |-> "2.0", id |-> id,
     result |-> {[content |-> TextContent(text)]},
     error |-> {}]

errorResponse_protocol(id, err) ==
    [jsonrpc |-> "2.0", id |-> id,
     result |-> {},
     error |-> {RPCError(-32603, <<"Internal error">>, err)}]

errorResponse(id, err) ==
    [jsonrpc |-> "2.0", id |-> id,
     result |-> {[content |-> TextContent(<<"Error: ">> \o err), isError |-> TRUE]},
     error |-> {}]

paramError_withResult(id, message, data) ==
    [jsonrpc |-> "2.0", id |-> id,
     result |-> {[content |-> TextContent(message)]},
     error |-> {RPCError(CodeInvalidParams, message, data)}]

paramError(id, message, data) ==
    [jsonrpc |-> "2.0", id |-> id,
     result |-> {},
     error |-> {RPCError(CodeInvalidParams, message, data)}]

\* The response sendError builds before it hands it to sendResponse.
sendError_invalidRequest(id, code, message, data) ==
    [jsonrpc |-> "2.0", id |-> id,
     result |-> {},
     error |-> {RPCError(-32600, message, data)}]

sendError(id, code, message, data) ==
    [jsonrpc |-> "2.0", id |-> id,
     result |-> {},
     error |-> {RPCError(code, message, data)}]

\* ------------------------------------------------------------------------
\* json.Marshal(resp) (main.go:78-81): omitempty drops a nil id, a nil
\* result, a nil error and nil error data; invalid UTF-8 in a string is
\* replaced by U+FFFD.
\* ------------------------------------------------------------------------
ToValidUTF8(text) ==
    [i \in DOMAIN text |-> IF text[i] = BadByte THEN ReplacementChar ELSE text[i]]

MarshalContent(content) ==
    [i \in DOMAIN content |->
        [type |-> content[i].type, text |-> ToValidUTF8(content[i].text)]]

MarshalResult(r) ==
    IF "content" \in DOMAIN r
    THEN IF "isError" \in DOMAIN r
         THEN [content |-> MarshalContent(r.content), isError |-> r.isError]
         ELSE [content |-> MarshalContent(r.content)]
    ELSE r

MarshalError(e) ==
    IF e.data = <<Nil>>
    THEN [code |-> e.code, message |-> ToValidUTF8(e.message)]
    ELSE [code |-> e.code, message |-> ToValidUTF8(e.message),
          data |-> ToValidUTF8(e.data)]

Marshal(resp) ==
    [jsonrpc |-> resp.jsonrpc,
     id |-> IF resp.id = Nil THEN {} ELSE {resp.id},
     result |-> {MarshalResult(r) : r \in resp.result},
     error |-> {MarshalError(e) : e \in resp.error}]

\* ------------------------------------------------------------------------
\* Handler results.  A handler either returns a response, returns nil, or
\* reaches its call of the WeatherService and blocks there.
\* ------------------------------------------------------------------------
Str(s) == IF s = "" THEN <<>> ELSE <<s>>

Reply(resp) == [reply |-> {resp}, call |-> {}]
NoReply == [reply |-> {}, call |-> {}]
Invoke(op, id, location, days) ==
    [reply |-> {},
     call |-> {[op |-> op, id |-> id, location |-> location, days |-> days]}]

\* ------------------------------------------------------------------------
\* Decoding of the tool arguments (json.Unmarshal at main.go:239, 262, 287)
\* ------------------------------------------------------------------------
\* struct { Location string }: every other member is ignored.
UnmarshalLocationInput(args) ==
    IF args.kind = "absent" \/ args.kind = "array"
    THEN [err |-> TRUE, location |-> ""]
    ELSE IF args.kind = "null"
    THEN [err |-> FALSE, location |-> ""]
    ELSE [err |-> args.location = NonString,
          location |-> IF args.location = NonString THEN ""
                       ELSE DecodeString(args.location)]

\* The days member decoded into a Go int that already holds init: an absent
\* key or a null keeps init; an integer literal within the int range is
\* stored; a literal beyond the int range (kind "overflow", strconv.ParseInt
\* fails), a fractional number and a string are type errors.
DecodeDays(d, init) ==
    IF d.kind \in {"absent", "null"} THEN [err |-> FALSE, days |-> init]
    ELSE IF d.kind = "int" THEN [err |-> FALSE, days |-> d.val]
    ELSE [err |-> TRUE, days |-> init]

\* struct { Location string; Days int } with Days preset to 3 (main.go:260).
UnmarshalForecastInput(args) ==
    IF args.kind = "absent" \/ args.kind = "array"
    THEN [err |-> TRUE, location |-> "", days |-> DefaultDays]
    ELSE IF args.kind = "null"
    THEN [err |-> FALSE, location |-> "", days |-> DefaultDays]
    ELSE LET loc == UnmarshalLocationInput(args)
             dd == DecodeDays(args.days, DefaultDays)
         IN [err |-> loc.err \/ dd.err, location |-> loc.location, days |-> dd.days]

\* main.go:270-272
clampDays_nearest(days) ==
    IF days < MinDays THEN MinDays ELSE IF days > MaxDays THEN MaxDays ELSE days

clampDays(days) ==
    IF days < MinDays \/ days > MaxDays THEN DefaultDays ELSE days

\* ------------------------------------------------------------------------
\* The three tool routines up to their WeatherService call
\* (main.go:234-301).  The part after the call is in toolResult.
\* ------------------------------------------------------------------------
JsonErrorText == <<"json: cannot unmarshal">>

requireLocation_skip(id, input, op, days) ==
    IF input.err
    THEN Reply(paramError(id, <<"Invalid arguments">>, JsonErrorText))
    ELSE Invoke(op, id, input.location, days)

\* The shared pattern of the three routines: decode error, then the
\* empty-location check, then the call.
requireLocation(id, input, op, days) ==
    IF input.err
    THEN Reply(paramError(id, <<"Invalid arguments">>, JsonErrorText))
    ELSE IF input.location = ""
    THEN Reply(paramError(id, <<"location is required">>, <<Nil>>))
    ELSE Invoke(op, id, input.location, days)

callGetCurrent(id, args) ==
    requireLocation(id, UnmarshalLocationInput(args), "GetCurrent", 0)

callGetForecast(id, args) ==
    LET input == UnmarshalForecastInput(args)
    IN requireLocation(id, input, "GetForecast", clampDays(input.days))

callGetDetailed(id, args) ==
    requireLocation(id, UnmarshalLocationInput(args), "GetDetailed", 0)

\* The tail of each routine (main.go:247-252, 274-279, 295-300): outcome is
\* what the WeatherService returned.
toolResult(call, outcome) ==
    IF outcome.err
    THEN errorResponse(call.id, outcome.detail)
    ELSE successResponse(call.id, outcome.body)

\* ------------------------------------------------------------------------
\* Method handlers (main.go:96-232)
\* ------------------------------------------------------------------------
handleInitialize(req) ==
    [jsonrpc |-> "2.0", id |-> req.id,
     result |-> {[protocolVersion |-> "2024-11-05",
                  serverInfo |-> [name |-> serverName, version |-> serverVersion],
                  capabilities |-> {"tools"}]},
     error |-> {}]

ToolDescriptor(name, properties) ==
    [name |-> name,
     inputSchema |-> [type |-> "object", properties |-> properties,
                      required |-> <<"location">>]]

handleToolsList(req) ==
    [jsonrpc |-> "2.0", id |-> req.id,
     result |-> {[tools |-> <<ToolDescriptor(toolGetCurrent, {"location"}),
                              ToolDescriptor(toolGetForecast, {"location", "days"}),
                              ToolDescriptor(toolGetDetailed, {"location"})>>]},
     error |-> {}]

\* json.Unmarshal(req.Params, &params) at main.go:203.
UnmarshalToolParams(params) ==
    IF params.kind = "absent" \/ params.kind = "array"
    THEN [err |-> TRUE, name |-> "", arguments |-> [kind |-> "absent"]]
    ELSE IF params.kind = "null"
    THEN [err |-> FALSE, name |-> "", arguments |-> [kind |-> "absent"]]
    ELSE [err |-> params.name = NonString,
          name |-> IF params.name = NonString THEN "" ELSE DecodeString(params.name),
          arguments |-> params.arguments]

unknownTool(id, name) ==
    [jsonrpc |-> "2.0", id |-> id,
     result |-> {},
     error |-> {RPCError(CodeInvalidParams, <<"Unknown tool: ">> \o Str(name), <<Nil>>)}]

\* A dispatcher that decodes the arguments before it looks at the name.
handleToolsCall_argsFirst(req) ==
    LET params == UnmarshalToolParams(req.params)
    IN IF params.err
       THEN Reply(paramError(req.id, <<"Invalid params">>, JsonErrorText))
       ELSE IF UnmarshalLocationInput(params.arguments).err
       THEN Reply(paramError(req.id, <<"Invalid arguments">>, JsonErrorText))
       ELSE IF params.name = toolGetCurrent
       THEN callGetCurrent(req.id, params.arguments)
       ELSE IF params.name = toolGetForecast
       THEN callGetForecast(req.id, params.arguments)
       ELSE IF params.name = toolGetDetailed
       THEN callGetDetailed(req.id, params.arguments)
       ELSE Invoke("GetCurrent", req.id, params.name, 0)

handleToolsCall(req) ==
    LET params == UnmarshalToolParams(req.params)
    IN IF params.err
       THEN Reply([jsonrpc |-> "2.0", id |-> req.id, result |-> {},
                   error |-> {RPCError(CodeInvalidParams, <<"Invalid params">>,
                                       JsonErrorText)}])
       ELSE IF params.name = toolGetCurrent
       THEN callGetCurrent(req.id, params.arguments)
       ELSE IF params.name = toolGetForecast
       THEN callGetForecast(req.id, params.arguments)
       ELSE IF params.name = toolGetDetailed
       THEN callGetDetailed(req.id, params.arguments)
       ELSE Reply(unknownTool(req.id, params.name))

methodNotFound_invalidRequest(req) ==
    [jsonrpc |-> "2.0", id |-> Nil,
     result |-> {},
     error |-> {RPCError(-32600, <<"Invalid Request">>, <<Nil>>)}]

\* The default case of handleRequest (main.go:106-114).
methodNotFound(req) ==
    [jsonrpc |-> "2.0", id |-> req.id,
     result |-> {},
     error |-> {RPCError(CodeMethodNotFound, <<"Method not found">>, <<Nil>>)}]

handleRequest_ackInitialized(req) ==
    IF req.method = "initialize" THEN Reply(handleInitialize(req))
    ELSE IF req.method = "initialized"
    THEN Reply([jsonrpc |-> "2.0", id |-> req.id, result |-> {[ok |-> TRUE]},
                error |-> {}])
    ELSE IF req.method = "tools/list" THEN Reply(handleToolsList(req))
    ELSE IF req.method = "tools/call" THEN handleToolsCall(req)
    ELSE Reply(methodNotFound(req))

\* A dispatcher with a session: tools are served only after an initialize.
handleRequest_session(req) ==
    IF req.method = "initialize" THEN Reply(handleInitialize(req))
    ELSE IF req.method = "initialized" THEN NoReply
    ELSE IF /\ req.method \in {"tools/list", "tools/call"}
            /\ \A i \in DOMAIN sent :
                   \A r \in sent[i].resp.result : "protocolVersion" \notin DOMAIN r
    THEN Reply(sendError(req.id, -32002, <<"Server not initialized">>, <<Nil>>))
    ELSE IF req.method = "tools/list" THEN Reply(handleToolsList(req))
    ELSE IF req.method = "tools/call" THEN handleToolsCall(req)
    ELSE Reply(methodNotFound(req))

handleRequest(req) ==
    IF req.method = "initialize" THEN Reply(handleInitialize(req))
    ELSE IF req.method = "initialized" THEN NoReply
    ELSE IF req.method = "tools/list" THEN Reply(handleToolsList(req))
    ELSE IF req.method = "tools/call" THEN handleToolsCall(req)
    ELSE Reply(methodNotFound(req))

\* ------------------------------------------------------------------------
\* The gateway: WeatherClient (weather.go)
\* ------------------------------------------------------------------------
baseURL == "https://wttr.in"

\* url.PathEscape on the locations of the model.
PathEscape(location) ==
    IF location = "New York" THEN "New%20York" ELSE location

DaysText(days) ==
    IF days = 1 THEN "1" ELSE IF days = 2 THEN "2" ELSE IF days = 3 THEN "3" ELSE "?"

GetCurrentURL(location) ==
    <<baseURL, "/", PathEscape(location), "?format=%l:+%c+%t+(%f)+%h+%w">>

GetForecastURL(location, days) ==
    <<baseURL, "/", PathEscape(location), "?", DaysText(days), "&lang=ru">>

GetDetailedURL(location) ==
    <<baseURL, "/", PathEscape(location), "?format=j1">>

RequestURL(call) ==
    IF call.op = "GetCurrent" THEN GetCurrentURL(call.location)
    ELSE IF call.op = "GetForecast" THEN GetForecastURL(call.location, call.days)
    ELSE GetDetailedURL(call.location)

StatusText(status) == IF status = 200 THEN "200" ELSE "404"

\* fetch: http is what the network did with the GET.  The result is the
\* pair (string, error) of the Go function: err, the body, and err.Error().
fetch(rawURL, http) ==
    IF http.kind = "transport"
    THEN [err |-> TRUE, body |-> <<>>,
          detail |-> <<"fetching weather: ", "timeout">>]
    ELSE IF http.kind = "readerr"
    THEN [err |-> TRUE, body |-> <<>>,
          detail |-> <<"reading response: ", "unexpected EOF">>]
    ELSE IF http.status # StatusOK
    THEN [err |-> TRUE, body |-> <<>>,
          detail |-> <<"wttr.in returned status ", StatusText(http.status), ": ">>
                     \o http.body]
    ELSE [err |-> FALSE, body |-> http.body, detail |-> <<>>]

\* ------------------------------------------------------------------------
\* Inputs of the model
\* ------------------------------------------------------------------------
Bodies == {<<>>, <<"{\"current_condition\":[]}">>, <<"caf", BadByte>>}

HTTPOutcomes ==
    {[kind |-> "transport", status |-> 0, body |-> <<>>],
     [kind |-> "readerr", status |-> StatusOK, body |-> <<>>],
     [kind |-> "response", status |-> 404, body |-> <<"Unknown location">>]}
    \cup {[kind |-> "response", status |-> StatusOK, body |-> b] : b \in Bodies}

DAbsent == [kind |-> "absent", val |-> 0]
DInt(n) == [kind |-> "int", val |-> n]
DaysInts == {-1, 0, 1, 2, 3, 4, 100}
DaysTokens ==
    {DAbsent, [kind |-> "null", val |-> 0], [kind |-> "overflow", val |-> 0],
     [kind |-> "float", val |-> 0], [kind |-> "string", val |-> 0]}
    \cup {DInt(n) : n \in DaysInts}

Obj(location, days) == [kind |-> "object", location |-> location, days |-> days]
NoObj == {[kind |-> "absent"], [kind |-> "null"], [kind |-> "array"]}
LocationTokens == {Absent, Null, NonString, "", "London"}

LocationArgs ==
    NoObj \cup {Obj(l, DAbsent) : l \in LocationTokens}
          \cup {Obj("London", [kind |-> "string", val |-> 0])}

ForecastArgs ==
    NoObj \cup {Obj(l, DAbsent) : l \in LocationTokens}
          \cup {Obj("London", d) : d \in DaysTokens}
          \cup {Obj("", DInt(2)), Obj(Absent, DInt(0)),
                Obj(Absent, [kind |-> "string", val |-> 0])}

OtherArgs == {[kind |-> "absent"], [kind |-> "array"],
              Obj("London", DAbsent), Obj("", DAbsent)}

ToolParams(name, arguments) ==
    [kind |-> "object", name |-> name, arguments |-> arguments]

CallParams ==
    NoObj
    \cup {ToolParams(toolGetCurrent, a) : a \in LocationArgs}
    \cup {ToolParams(toolGetDetailed, a) : a \in LocationArgs}
    \cup {ToolParams(toolGetForecast, a) : a \in ForecastArgs}
    \cup {ToolParams(n, a) : n \in {"nonexistent_tool", Absent}, a \in OtherArgs}
    \cup {ToolParams(NonString, [kind |-> "absent"])}

OtherMethods ==
    {"initialize", "initialized", "tools/list", "unknown/method",
     "notifications/initialized", Absent, NonString}

Request(id, method, params) ==
    [kind |-> "object", id |-> id, method |-> method, params |-> params]

IdTokens == {Absent, Null, "7"}

Lines ==
    {[kind |-> "empty"], [kind |-> "toolong"], [kind |-> "syntax"],
     [kind |-> "array"], [kind |-> "null"]}
    \cup {Request("7", "tools/call", p) : p \in CallParams}
    \cup {Request("7", m, ToolParams(toolGetCurrent, Obj("London", DAbsent))) :
             m \in OtherMethods}
    \cup {Request(i, m, [kind |-> "absent"]) : i \in IdTokens, m \in OtherMethods}
    \cup {Request(BigIdWire, "unknown/method", [kind |-> "absent"])}
    \cup {Request(i, "tools/call", p) :
             i \in IdTokens,
             p \in {[kind |-> "absent"],
                    ToolParams(toolGetCurrent, Obj("London", DAbsent)),
                    ToolParams(toolGetDetailed, Obj("", DAbsent)),
                    ToolParams("nonexistent_tool", Obj("London", DAbsent))}}

\* The lines of the longer inputs: one of each route.
ProbeLines ==
    {[kind |-> "empty"], [kind |-> "toolong"], [kind |-> "syntax"],
     Request("7", "initialize", [kind |-> "absent"]),
     Request("7", "initialized", [kind |-> "absent"]),
     Request("7", "tools/list", [kind |-> "absent"]),
     Request("7", "unknown/method", [kind |-> "absent"]),
     Request("7", "tools/call", ToolParams(toolGetCurrent, Obj("London", DAbsent))),
     Request("7", "tools/call", ToolParams(toolGetForecast, Obj("London", DInt(0)))),
     Request("7", "tools/call", ToolParams(toolGetDetailed, Obj("", DAbsent))),
     Request("7", "tools/call", ToolParams("nonexistent_tool", Obj("London", DAbsent)))}

\* ------------------------------------------------------------------------
\* Initial state and actions
\* ------------------------------------------------------------------------
Init ==
    /\ pc = "scan"
    /\ nread = 0
    /\ cur = [kind |-> "empty"]
    /\ pending = {}
    /\ calls = <<>>
    /\ got = {}
    /\ sent = <<>>
    /\ stdout = <<>>
    /\ hist = [on |-> FALSE, seen |-> {}]

\* The same program, observed over longer inputs drawn from ProbeLines.
InitHistory ==
    /\ pc = "scan"
    /\ nread = 0
    /\ cur = [kind |-> "empty"]
    /\ pending = {}
    /\ calls = <<>>
    /\ got = {}
    /\ sent = <<>>
    /\ stdout = <<>>
    /\ hist = [on |-> TRUE, seen |-> {}]

InputLines == IF hist.on THEN ProbeLines ELSE Lines
LineLimit == IF hist.on THEN MaxHistory ELSE MaxLines

Observe(line, outcomes, replies, called) ==
    IF hist.on
    THEN [hist EXCEPT !.seen = @ \cup {[line |-> line, got |-> outcomes,
                                        replies |-> replies, calls |-> called]}]
    ELSE hist

\* sendResponse (main.go:78-81): one marshalled line on standard output.
sendResponse(resp) ==
    /\ sent' = Append(sent, [line |-> nread + 1, resp |-> resp])
    /\ stdout' = Append(stdout, Marshal(resp))

\* Where the loop is after a handler result: a handler that reached its
\* WeatherService call is blocked in it (the call is synchronous).
afterHandler_async(out) == "scan"

afterHandler(out) == IF out.call # {} THEN "call" ELSE "scan"

\* scanner.Scan() is reached only at the top of the for loop.
AtScan == pc = "scan" /\ nread < LineLimit

\* main.go:61-63
ReadEmptyLine ==
    /\ AtScan
    /\ nread' = nread + 1
    /\ cur' = [kind |-> "empty"]
    /\ got' = {}
    /\ UNCHANGED <<pc, pending, calls, sent, stdout, hist>>

\* A line longer than the scanner's 1 MiB buffer: Scan returns false
\* (bufio.ErrTooLong) and the loop ends (main.go:57-59).
ReadTooLongLine ==
    /\ AtScan
    /\ nread' = nread + 1
    /\ cur' = [kind |-> "toolong"]
    /\ got' = {}
    /\ pc' = "done"
    /\ UNCHANGED <<pending, calls, sent, stdout, hist>>

\* End of input: Scan returns false.
ReadEOF ==
    /\ pc = "scan"
    /\ pc' = "done"
    /\ UNCHANGED <<nread, cur, pending, calls, got, sent, stdout, hist>>

\* main.go:65-69
ReadUndecodable ==
    /\ AtScan
    /\ \E line \in InputLines :
          /\ line.kind \notin {"empty", "toolong"}
          /\ UnmarshalRequest(line).err
          /\ cur' = line
    /\ nread' = nread + 1
    /\ got' = {}
    /\ sendResponse(sendError(Nil, CodeParseError, <<"Parse error">>, JsonErrorText))
    /\ UNCHANGED <<pc, pending, calls, hist>>

\* main.go:65-74 for a line that decodes: handleRequest up to its return
\* or up to the WeatherService call.
ReadRequest ==
    /\ AtScan
    /\ \E line \in InputLines :
          /\ line.kind \notin {"empty", "toolong"}
          /\ ~UnmarshalRequest(line).err
          /\ cur' = line
          /\ LET out == handleRequest(UnmarshalRequest(line))
             IN /\ pc' = afterHandler(out)
                /\ pending' = pending \cup {[line |-> nread + 1, call |-> c] : c \in out.call}
                /\ calls' = IF out.call = {} THEN calls
                            ELSE LET c == CHOOSE c \in out.call : TRUE
                                 IN Append(calls, [line |-> nread + 1, call |-> c])
                /\ IF out.reply = {}
                   THEN UNCHANGED <<sent, stdout>>
                   ELSE sendResponse(CHOOSE r \in out.reply : TRUE)
                /\ hist' = IF out.call = {}
                           THEN Observe(line, {}, out.reply, {})
                           ELSE hist
    /\ nread' = nread + 1
    /\ got' = {}

\* The WeatherService call returns; the routine shapes the response and run
\* prints it (main.go:247-252, 274-279, 295-300, then 71-74).
GatewayReturn ==
    /\ pending # {}
    /\ \E p \in pending, http \in HTTPOutcomes :
          LET outcome == fetch(RequestURL(p.call), http)
          IN /\ got' = {outcome}
             /\ pending' = pending \ {p}
             /\ sent' = Append(sent, [line |-> p.line,
                                      resp |-> toolResult(p.call, outcome)])
             /\ stdout' = Append(stdout, Marshal(toolResult(p.call, outcome)))
             /\ hist' = Observe(cur, {outcome}, {toolResult(p.call, outcome)},
                                {p.call})
    /\ pc' = IF pc = "call" THEN "scan" ELSE pc
    /\ UNCHANGED <<nread, cur, calls>>

Next ==
    \/ ReadEmptyLine
    \/ ReadTooLongLine
    \/ ReadEOF
    \/ ReadUndecodable
    \/ ReadRequest
    \/ GatewayReturn

Spec == Init /\ [][Next]_vars

SpecHistory == InitHistory /\ [][Next]_vars

\* ------------------------------------------------------------------------
\* Vocabulary of the properties
\* ------------------------------------------------------------------------
Tools == {toolGetCurrent, toolGetForecast, toolGetDetailed}
RoutedMethods == {"initialize", "initialized", "tools/list", "tools/call"}

\* The line consumed last has been dealt with completely.
Resolved == nread > 0 /\ pc # "call"

IsJSON(line) == line.kind \in {"syntax", "array", "null", "object"}
Decodable(line) == line.kind \in {"null", "object"} /\ ~UnmarshalRequest(line).err
Undecodable(line) == IsJSON(line) /\ UnmarshalRequest(line).err

RepliesOfCur == {sent[i].resp : i \in {j \in DOMAIN sent : sent[j].line = nread}}
CallsOfCur == {calls[i].call : i \in {j \in DOMAIN calls : calls[j].line = nread}}

\* cur is a tools/call whose params decode and name one of the three tools.
IsToolCall(line) ==
    /\ Decodable(line)
    /\ line.kind = "object"
    /\ line.method = "tools/call"
    /\ ~UnmarshalToolParams(line.params).err
    /\ UnmarshalToolParams(line.params).name \in Tools

ArgsOf(line) == UnmarshalToolParams(line.params).arguments
NameOf(line) == UnmarshalToolParams(line.params).name

ErrorCodes(resp) == {e.code : e \in resp.error}

\* ------------------------------------------------------------------------
\* C1: for each tool, when a tools/call passed validation and the
\* WeatherService returned a failure, the one reply has no error object and
\* a result with isError true whose single text block is "Error: " followed
\* by the failure detail.
\* ------------------------------------------------------------------------
C1_GatewayFailureIsInBand ==
    (Resolved /\ IsToolCall(cur) /\ \E o \in got : o.err) =>
        /\ Cardinality(RepliesOfCur) = 1
        /\ \A r \in RepliesOfCur, o \in got :
              /\ r.error = {}
              /\ r.result = {[content |-> <<[type |-> "text",
                                             text |-> <<"Error: ">> \o o.detail]>>,
                              isError |-> TRUE]}
        /\ stdout[Len(stdout)].error = {}
        /\ \A w \in stdout[Len(stdout)].result : w.isError = TRUE

C1_Witness ==
    /\ Resolved /\ IsToolCall(cur)
    /\ NameOf(cur) = toolGetForecast
    /\ \E o \in got : o.err /\ o.detail = <<"wttr.in returned status ", "404", ": ",
                                            "Unknown location">>
    /\ \E r \in RepliesOfCur : r.error = {}

\* ------------------------------------------------------------------------
\* C2: for each tool, a tools/call whose arguments omit location or give it
\* as the empty string gets an error object with code -32602 and no result,
\* and the WeatherService is not called for that message.
\* ------------------------------------------------------------------------
LocationMissing(args) ==
    \/ args.kind \in {"absent", "null"}
    \/ args.kind = "object" /\ args.location \in {Absent, ""}

C2_MissingLocationIsInvalidParams ==
    (Resolved /\ IsToolCall(cur) /\ LocationMissing(ArgsOf(cur))) =>
        /\ Cardinality(RepliesOfCur) = 1
        /\ \A r \in RepliesOfCur :
              ErrorCodes(r) = {CodeInvalidParams} /\ r.result = {}
        /\ CallsOfCur = {}
        /\ got = {}

C2_Witness ==
    /\ Resolved /\ IsToolCall(cur)
    /\ NameOf(cur) = toolGetDetailed
    /\ ArgsOf(cur).kind = "object" /\ ArgsOf(cur).location = ""
    /\ \E r \in RepliesOfCur : ErrorCodes(r) = {CodeInvalidParams}

\* ------------------------------------------------------------------------
\* C3: for get_forecast with a non-empty location, the day count handed to
\* the WeatherService is d when days is an integer d with 1 <= d <= 3, and 3
\* whenever days is absent or is an integer outside [1,3]; an out-of-range
\* integer is never rejected with an error and never clamped to the nearest
\* bound.
\* ------------------------------------------------------------------------
IsForecastCall(line) ==
    /\ IsToolCall(line)
    /\ NameOf(line) = toolGetForecast
    /\ ArgsOf(line).kind = "object"
    /\ ArgsOf(line).location \notin {Absent, Null, NonString, ""}

\* The days member is absent or is a JSON integer literal (of any size).
DaysIsIntegerOrAbsent(d) == d.kind \in {"absent", "int", "overflow"}

ExpectedDays(d) ==
    IF d.kind = "int" /\ MinDays <= d.val /\ d.val <= MaxDays THEN d.val ELSE DefaultDays

C3_ForecastDayCount ==
    (nread > 0 /\ IsForecastCall(cur) /\ DaysIsIntegerOrAbsent(ArgsOf(cur).days)) =>
        /\ Cardinality(CallsOfCur) = 1
        /\ \A c \in CallsOfCur :
              c.op = "GetForecast" /\ c.days = ExpectedDays(ArgsOf(cur).days)
        /\ \A r \in RepliesOfCur : r.error = {}

\* The same statement for the integers a Go int can hold.
C3_ForecastDayCountInRange ==
    (nread > 0 /\ IsForecastCall(cur) /\ ArgsOf(cur).days.kind \in {"absent", "int"}) =>
        /\ Cardinality(CallsOfCur) = 1
        /\ \A c \in CallsOfCur :
              c.op = "GetForecast" /\ c.days = ExpectedDays(ArgsOf(cur).days)
        /\ \A r \in RepliesOfCur : r.error = {}

C3_InRangeWitness ==
    /\ nread > 0 /\ IsForecastCall(cur)
    /\ ArgsOf(cur).days = DInt(0)
    /\ \E c \in CallsOfCur : c.days = DefaultDays

IsBadToolCall(line) ==
    /\ Decodable(line)
    /\ line.kind = "object"
    /\ line.method = "tools/call"
    /\ \/ UnmarshalToolParams(line.params).err
       \/ UnmarshalToolParams(line.params).name \notin Tools

C5_BadToolCallIsInvalidParams ==
    (Resolved /\ IsBadToolCall(cur)) =>
        /\ Cardinality(RepliesOfCur) = 1
        /\ \A r \in RepliesOfCur :
              /\ ErrorCodes(r) = {CodeInvalidParams}
              /\ r.result = {}
              /\ ~UnmarshalToolParams(cur.params).err =>
                    \A e \in r.error :
                       e.message = <<"Unknown tool: ">> \o Str(NameOf(cur))
        /\ CallsOfCur = {}
        /\ got = {}

C5_Witness ==
    /\ Resolved /\ IsBadToolCall(cur)
    /\ cur.params.kind = "object"
    /\ cur.params.name = "nonexistent_tool"
    /\ cur.params.arguments.kind = "array"
    /\ \E r \in RepliesOfCur : \E e \in r.error :
          e.message = <<"Unknown tool: ", "nonexistent_tool">>

\* ------------------------------------------------------------------------
\* C6: a message with method "initialized" produces no output line and no
\* WeatherService call, whatever its identifier and params, and the loop
\* is back at reading the next line.
\* ------------------------------------------------------------------------
IsInitialized(line) ==
    Decodable(line) /\ line.kind = "object" /\ line.method = "initialized"

C6_InitializedIsSilent ==
    [][(nread' = nread + 1 /\ IsInitialized(cur')) =>
          /\ stdout' = stdout
          /\ sent' = sent
          /\ calls' = calls
          /\ pending' = {}
          /\ pc' = "scan"]_vars

C6_Witness ==
    /\ nread > 0 /\ IsInitialized(cur)
    /\ cur.id = "7" /\ cur.params.kind = "object"
    /\ RepliesOfCur = {}
    /\ pc = "scan"

\* ------------------------------------------------------------------------
\* C7: for a decodable message, identifier presence determines whether a
\* reply is written: a message without identifier never gets a reply,
\* whatever its method, and a message with an identifier always gets one.
\* ------------------------------------------------------------------------
HasIdentifier(line) == line.kind = "object" /\ line.id # Absent

C7_IdentifierDeterminesReply ==
    (Resolved /\ Decodable(cur)) =>
        /\ ~HasIdentifier(cur) => RepliesOfCur = {}
        /\ HasIdentifier(cur) => Cardinality(RepliesOfCur) = 1

\* What the code does instead: the method decides.
C7_MethodDeterminesReply ==
    (Resolved /\ Decodable(cur)) =>
        /\ UnmarshalRequest(cur).method = "initialized" => RepliesOfCur = {}
        /\ UnmarshalRequest(cur).method # "initialized" =>
              /\ Cardinality(RepliesOfCur) = 1
              /\ \A r \in RepliesOfCur : r.id = UnmarshalRequest(cur).id

\* ------------------------------------------------------------------------
\* C8: every reply written, after any sequence of messages, carries exactly
\* one of a result and an error object, in the response value and in the
\* marshalled line.
\* ------------------------------------------------------------------------
C8_ExactlyOneOfResultOrError ==
    /\ \A i \in DOMAIN sent :
          Cardinality(sent[i].resp.result) + Cardinality(sent[i].resp.error) = 1
    /\ \A i \in DOMAIN stdout :
          Cardinality(stdout[i].result) + Cardinality(stdout[i].error) = 1

C8_Witness ==
    /\ Len(sent) = 2
    /\ ErrorCodes(sent[1].resp) = {CodeInvalidParams}
    /\ sent[1].resp.result = {}
    /\ sent[2].resp.error = {}
    /\ \E r \in sent[2].resp.result : "isError" \in DOMAIN r

\* ------------------------------------------------------------------------
\* C9: a non-empty line that cannot be decoded gets exactly one reply, with
\* code -32700 and a nil identifier, without routing and without a
\* WeatherService call; and code -32700 is the reply to no line that
\* decoded.
\* ------------------------------------------------------------------------
C9_ParseErrorOnlyForUndecodable ==
    /\ (nread > 0 /\ Undecodable(cur)) =>
          /\ RepliesOfCur = {sendError(Nil, CodeParseError, <<"Parse error">>,
                                       JsonErrorText)}
          /\ \A r \in RepliesOfCur :
                r.id = Nil /\ ErrorCodes(r) = {CodeParseError} /\ r.result = {}
          /\ Cardinality({i \in DOMAIN sent : sent[i].line = nread}) = 1
          /\ CallsOfCur = {}
          /\ pc # "call"
    /\ (nread > 0 /\ ~Undecodable(cur)) =>
          \A r \in RepliesOfCur : CodeParseError \notin ErrorCodes(r)

C9_Witness ==
    /\ nread > 0 /\ cur.kind = "object" /\ cur.method = NonString /\ cur.id = "7"
    /\ \E r \in RepliesOfCur : r.id = Nil /\ ErrorCodes(r) = {CodeParseError}

\* ------------------------------------------------------------------------
\* C10: one line at a time: each non-empty line yields at most one output
\* line and an empty line none; the output of a line, with any
\* WeatherService call it makes, is complete before the next line is read,
\* so replies are in input order and at most one call is in flight.
\* ------------------------------------------------------------------------
C10_OneLineAtATime ==
    /\ \A i, j \in DOMAIN sent : i < j => sent[i].line < sent[j].line
    /\ \A i \in DOMAIN sent : sent[i].line <= nread
    /\ Len(stdout) = Len(sent)
    /\ (nread > 0 /\ cur.kind = "empty") => RepliesOfCur = {}
    /\ Cardinality(pending) <= 1
    /\ \A p \in pending : p.line = nread /\ pc = "call"
    /\ \A i \in DOMAIN calls :
          \/ \E p \in pending : p.line = calls[i].line
          \/ \E k \in DOMAIN sent : sent[k].line = calls[i].line

C10_Witness ==
    /\ nread = 2 /\ pc = "scan"
    /\ Len(calls) = 2
    /\ Len(sent) = 2
    /\ sent[1].line = 1 /\ sent[2].line = 2
    /\ pending = {}

\* ------------------------------------------------------------------------
\* C11: no message outcome is fatal: after any input line, however it
\* resolved (empty, undecodable, oversized, protocol error, WeatherService
\* failure, success, notification), the loop goes on to the next line; the
\* loop ends only when the input ends.
\* ------------------------------------------------------------------------
C11_NoOutcomeIsFatal ==
    [][(pc # "done" /\ pc' = "done") => (pc = "scan" /\ nread' = nread)]_vars

\* What the code does: only a line beyond the scanner's buffer ends the
\* loop before the end of the input.
C11_OnlyTooLongLineIsFatal ==
    [][(pc # "done" /\ pc' = "done") =>
          /\ pc = "scan"
          /\ nread' = nread \/ cur'.kind = "toolong"]_vars

\* ------------------------------------------------------------------------
\* C12: for each tool, when a tools/call passed validation and the
\* WeatherService returned success with body b, the one reply carries the
\* request's identifier, no error object, and a result whose content is
\* exactly the one block {type: "text", text: b}, b unmodified (also when
\* b is empty), with no isError flag.  In the marshalled line the text is
\* b as well whenever b is valid UTF-8.
\* ------------------------------------------------------------------------
IsValidUTF8(text) == \A i \in DOMAIN text : text[i] # BadByte

C13_SameMessageSameReply ==
    \A a, b \in hist.seen :
        (a.line = b.line /\ a.got = b.got) =>
            (a.replies = b.replies /\ a.calls = b.calls)

InitializeReplied(i) ==
    /\ i \in DOMAIN sent
    /\ \E r \in sent[i].resp.result : "protocolVersion" \in DOMAIN r

\* tools/list first, then initialize, then tools/list again: same reply.
C13_Witness ==
    /\ hist.on
    /\ nread = 3 /\ pc = "scan"
    /\ Len(sent) = 3
    /\ \E r \in sent[1].resp.result : "tools" \in DOMAIN r
    /\ InitializeReplied(2)
    /\ sent[3].resp = sent[1].resp
    /\ cur = Request("7", "tools/list", [kind |-> "absent"])

====
